---- MODULE Spec2Model ----
(***************************************************************************)
(* Model of the two scripts of the repository:                             *)
(*   audacity_poadcast/audacity_controller.py  (Spec)                      *)
(*   bark/run.py                               (SpecFillers, SpecInsert,   *)
(*                                              SpecConv)                  *)
(* Times are in milliseconds.                                              *)
(***************************************************************************)
EXTENDS Integers, Sequences, FiniteSets, TLC

(***************************************************************************)
(* Bounds of the model.                                                    *)
(***************************************************************************)
\* duration of one successful open+read of the inbound pipe, in ms
ReadMs == 50
\* number of newline-free parts one recv call may accumulate
MaxParts == 2
\* number of entries of FILLERS that ensure_filler_clips walks through
NumFillers == 2
\* number of times the filler generation is run against the same disk
MaxRuns == 2
\* number of lines of BASE_SCRIPT that generate_conversation walks through
NumLines == 2
\* number of intervals silence detection may return for one segment
MaxPauses == 2

(***************************************************************************)
(* audacity_controller.py : constants                                      *)
(***************************************************************************)
SEND_RETRIES == 5
RECV_TIMEOUT_MS == 5000
RECV_SLEEP_MS == 100
ENSURE_POLLS == 20
ENSURE_SLEEP_MS == 300

pipeline ==
    << "Import2", "SelectAll", "NoiseReduction:GetProfile",
       "NoiseReduction:Reduce", "FilterCurve:LowRollOff",
       "FilterCurve:BassBoost", "TruncateSilence", "Compressor",
       "Limiter", "LoudnessNormalization", "Normalize", "Export2" >>

VerifyCmd == "GetInfo:Tracks"

\* every command main() sends, in order
AllCmds == Append(pipeline, VerifyCmd)

\* what one attempt of send() can do: fail in CreateFile, fail in WriteFile,
\* fail after the write (h.close()), or succeed
SendOutcomes == {"open", "write", "close", "ok"}

\* parts ReadFile can return: <<text, has newline>>
Parts == { <<"data", FALSE>>, <<"name", TRUE>>, <<"other", TRUE>> }

NoExc == <<"none", 0>>

VARIABLES
    mpc,        \* position of main()
    polls,      \* ensure_pipes: polls made
    toPipe,     \* ensure_pipes: os.path.exists(TO_PIPE) at the last poll
    frPipe,     \* ensure_pipes: os.path.exists(FR_PIPE) at the last poll
    waited,     \* ensure_pipes: time slept, ms
    idx,        \* index into AllCmds of the command being processed
    attempts,   \* send: attempts made in the current call
    fails,      \* send: attempts of the current call that raised
    lateFails,  \* send: attempts of the current call that raised after the write
    writes,     \* send: times the current call wrote the command to the pipe
    last_exc,   \* send: <<kind, attempt>> of the last exception caught
    sent,       \* commands whose send() returned, in order
    rnow,       \* recv: time.time() - start
    buffer,     \* recv: texts of the parts read so far
    rret,       \* recv: how the last call returned: "none", "line", "timeout"
    resp,       \* recv: value returned by the last call
    unacked,    \* number of recv calls of this run that returned empty
    report,     \* main: outcome of the track check
    error       \* exception that left main(), or NoErr

avars == << mpc, polls, toPipe, frPipe, waited, idx, attempts, fails,
            lateFails, writes, last_exc, sent, rnow, buffer, rret, resp,
            unacked, report, error >>

VARIABLES
    fpc,            \* position of ensure_filler_clips
    frun,           \* how many times the filler generation was started
    fpos,           \* index of the (filler, speaker) pair in turn
    filler_clips,   \* registry: (text, speaker) -> (filename, type, duration)
    disk,           \* fillers/ directory: filename -> run that wrote it last
    synthCalls,     \* generate_audio calls made by the current run
    fileWrites,     \* write_wav calls completed by the current run
    prevFull,       \* the previous run produced a clip for every pair
    cpc,            \* position of generate_conversation / add_listener_responses
    line,           \* index of the script line in turn
    conversation,   \* the running buffer, a sequence of pieces
    temp,           \* temp_line.wav exists
    skipped,        \* lines whose processing raised
    lens,           \* lengths of the lines synthesized so far: <<line, ms>>
    main_audio,     \* length in ms of the segment of the line in turn
    main_speaker,   \* speaker of the line in turn
    pauses,         \* add_listener_responses: the intervals detected
    ret             \* add_listener_responses: what it returned

fvars == << fpc, frun, fpos, disk, synthCalls, fileWrites, prevFull >>
cvars == << cpc, line, conversation, temp, skipped, lens, main_audio,
            main_speaker, pauses, ret >>
bvars == << fvars, filler_clips, cvars >>

vars == << avars, bvars >>

NoErr == << "none", NoExc >>

sendVars == << attempts, fails, lateFails, writes, last_exc >>
recvVars == << rnow, buffer, rret, resp >>
ensureVars == << polls, toPipe, frPipe, waited >>

(***************************************************************************)
(* ensure_pipes                                                            *)
(***************************************************************************)
PipesLive_either(t, f) == t \/ f

PipesLive(t, f) == t /\ f

EnsurePoll ==
    /\ mpc = "ensure"
    /\ polls < ENSURE_POLLS
    /\ \E t \in BOOLEAN, f \in BOOLEAN :
          /\ toPipe' = t
          /\ frPipe' = f
          /\ polls' = polls + 1
          /\ IF PipesLive(t, f)
                THEN /\ mpc' = "check_input"
                     /\ waited' = waited
                ELSE /\ mpc' = "ensure"
                     /\ waited' = waited + ENSURE_SLEEP_MS
    /\ UNCHANGED << idx, sendVars, sent, recvVars, unacked, report, error >>
    /\ UNCHANGED bvars

EnsureRaise ==
    /\ mpc = "ensure"
    /\ polls = ENSURE_POLLS
    /\ mpc' = "raised"
    /\ error' = << "RuntimeError:pipes", NoExc >>
    /\ UNCHANGED << ensureVars, idx, sendVars, sent, recvVars, unacked, report >>
    /\ UNCHANGED bvars

(***************************************************************************)
(* main: input file check                                                  *)
(***************************************************************************)
CheckInput ==
    /\ mpc = "check_input"
    /\ \E exists \in BOOLEAN :
          IF exists
             THEN /\ mpc' = "send"
                  /\ error' = error
             ELSE /\ mpc' = "raised"
                  /\ error' = << "FileNotFoundError", NoExc >>
    \* the locals of ensure_pipes are gone
    /\ polls' = 0
    /\ toPipe' = FALSE
    /\ frPipe' = FALSE
    /\ waited' = 0
    /\ UNCHANGED << idx, sendVars, sent, recvVars, unacked, report >>
    /\ UNCHANGED bvars

(***************************************************************************)
(* send                                                                    *)
(***************************************************************************)
\* the except branch of send: remember the exception
Caught_first(old, kind, n) == IF old = NoExc THEN << kind, n >> ELSE old

Caught(old, kind, n) == << kind, n >>

SendAttempt ==
    /\ mpc = "send"
    /\ attempts < SEND_RETRIES
    /\ \E o \in SendOutcomes :
          /\ attempts' = attempts + 1
          /\ writes' = IF o \in {"close", "ok"} THEN writes + 1 ELSE writes
          /\ IF o = "ok"
                THEN /\ mpc' = "sent"
                     /\ sent' = Append(sent, AllCmds[idx])
                     /\ UNCHANGED << fails, lateFails, last_exc >>
                ELSE /\ mpc' = "send"
                     /\ sent' = sent
                     /\ fails' = fails + 1
                     /\ lateFails' = IF o = "close" THEN lateFails + 1 ELSE lateFails
                     /\ last_exc' = Caught(last_exc, o, attempts + 1)
    /\ UNCHANGED << ensureVars, idx, recvVars, unacked, report, error >>
    /\ UNCHANGED bvars

\* a send that gives up silently, leaving main() to go on
SendRaise_swallow ==
    /\ mpc = "send"
    /\ attempts = SEND_RETRIES
    /\ mpc' = "sent"
    /\ UNCHANGED << ensureVars, idx, sendVars, sent, recvVars, unacked, report, error >>
    /\ UNCHANGED bvars

SendRaise ==
    /\ mpc = "send"
    /\ attempts = SEND_RETRIES
    /\ mpc' = "raised"
    /\ error' = << "RuntimeError:write", last_exc >>
    /\ UNCHANGED << ensureVars, idx, sendVars, sent, recvVars, unacked, report >>
    /\ UNCHANGED bvars

(***************************************************************************)
(* recv                                                                    *)
(***************************************************************************)
RecvBegin ==
    /\ mpc = "sent"
    /\ mpc' = "recv"
    /\ rnow' = 0
    /\ buffer' = << >>
    /\ rret' = "none"
    /\ resp' = << >>
    /\ attempts' = 0
    /\ fails' = 0
    /\ lateFails' = 0
    /\ writes' = 0
    /\ last_exc' = NoExc
    /\ UNCHANGED << ensureVars, idx, sent, unacked, report, error >>
    /\ UNCHANGED bvars

\* CreateFile, ReadFile or close raised: sleep and try again
RecvFail ==
    /\ mpc = "recv"
    /\ rnow < RECV_TIMEOUT_MS
    /\ rnow' = rnow + RECV_SLEEP_MS
    /\ UNCHANGED << mpc, buffer, rret, resp, ensureVars, idx, sendVars, sent,
                    unacked, report, error >>
    /\ UNCHANGED bvars

\* value recv hands back when the loop runs out of time
TimeoutResult_buffer(buf) == buf

TimeoutResult(buf) == << >>

\* a read returned a part
RecvRead ==
    /\ mpc = "recv"
    /\ rnow < RECV_TIMEOUT_MS
    /\ \E part \in Parts :
          IF part[2]
             THEN /\ buffer' = Append(buffer, part[1])
                  /\ resp' = Append(buffer, part[1])
                  /\ rret' = "line"
                  /\ rnow' = rnow
                  /\ mpc' = "settle"
             ELSE /\ Len(buffer) < MaxParts
                  /\ buffer' = Append(buffer, part[1])
                  /\ rnow' = rnow + ReadMs
                  /\ UNCHANGED << mpc, rret, resp >>
    /\ UNCHANGED << ensureVars, idx, sendVars, sent, unacked, report, error >>
    /\ UNCHANGED bvars

\* the synchronous ReadFile never returns
RecvBlock ==
    /\ mpc = "recv"
    /\ rnow < RECV_TIMEOUT_MS
    /\ mpc' = "blocked"
    /\ UNCHANGED << ensureVars, idx, sendVars, sent, recvVars, unacked, report, error >>
    /\ UNCHANGED bvars

RecvTimeout ==
    /\ mpc = "recv"
    /\ rnow >= RECV_TIMEOUT_MS
    /\ resp' = TimeoutResult(buffer)
    /\ rret' = "timeout"
    /\ unacked' = unacked + 1
    /\ mpc' = "settle"
    /\ UNCHANGED << ensureVars, idx, sendVars, sent, rnow, buffer, report, error >>
    /\ UNCHANGED bvars

(***************************************************************************)
(* main: loop over the pipeline, then the verification query               *)
(***************************************************************************)
\* after recv of command idx: settle delay and next command, or the check of
\* the verification response
Settle ==
    /\ mpc = "settle"
    /\ IF idx < Len(AllCmds)
          THEN /\ idx' = idx + 1
               /\ mpc' = "send"
               /\ report' = report
          ELSE /\ idx' = idx
               /\ mpc' = "done"
               /\ report' = IF \E i \in 1..Len(resp) : resp[i] = "name"
                               THEN "loaded" ELSE "no track"
    \* the locals of recv are gone
    /\ rnow' = 0
    /\ buffer' = << >>
    /\ rret' = "none"
    /\ resp' = << >>
    /\ UNCHANGED << ensureVars, sendVars, sent, unacked, error >>
    /\ UNCHANGED bvars

AudInit ==
    /\ mpc = "ensure"
    /\ polls = 0
    /\ toPipe = FALSE
    /\ frPipe = FALSE
    /\ waited = 0
    /\ idx = 1
    /\ attempts = 0
    /\ fails = 0
    /\ lateFails = 0
    /\ writes = 0
    /\ last_exc = NoExc
    /\ sent = << >>
    /\ rnow = 0
    /\ buffer = << >>
    /\ rret = "none"
    /\ resp = << >>
    /\ unacked = 0
    /\ report = "none"
    /\ error = NoErr

AudIdle ==
    /\ mpc = "idle"
    /\ polls = 0
    /\ toPipe = FALSE
    /\ frPipe = FALSE
    /\ waited = 0
    /\ idx = 1
    /\ attempts = 0
    /\ fails = 0
    /\ lateFails = 0
    /\ writes = 0
    /\ last_exc = NoExc
    /\ sent = << >>
    /\ rnow = 0
    /\ buffer = << >>
    /\ rret = "none"
    /\ resp = << >>
    /\ unacked = 0
    /\ report = "none"
    /\ error = NoErr

(***************************************************************************)
(* bark/run.py : configuration.  Durations are in microseconds, lengths of *)
(* audio in milliseconds.                                                  *)
(***************************************************************************)
VOICES == << "sandip", "yash" >>

BASE_SCRIPT ==
    << [speaker |-> "sandip", text |-> "Hey Yash, I was reviewing our podcast analytics from last month"],
       [speaker |-> "yash", text |-> "Yeah, what were the numbers looking like?"],
       [speaker |-> "sandip", text |-> "We got about 15% more listens compared to the previous month"],
       [speaker |-> "yash", text |-> "That's really encouraging growth actually"],
       [speaker |-> "sandip", text |-> "Right? And the engagement metrics were particularly strong"],
       [speaker |-> "yash", text |-> "Which episodes performed the best?"],
       [speaker |-> "sandip", text |-> "The one about AI tools and the interview with the startup founder"],
       [speaker |-> "yash", text |-> "Makes sense, those were really in-depth discussions"],
       [speaker |-> "sandip", text |-> "Exactly, listeners seem to prefer our longer format content"],
       [speaker |-> "yash", text |-> "We should plan more of those then"],
       [speaker |-> "sandip", text |-> "Definitely, I was thinking we could do a series"],
       [speaker |-> "yash", text |-> "That's a great idea, maybe three parts?"],
       [speaker |-> "sandip", text |-> "Yeah, we could cover different aspects each week"],
       [speaker |-> "yash", text |-> "Should we start planning the topics?"],
       [speaker |-> "sandip", text |-> "Let's schedule a brainstorming session for tomorrow"],
       [speaker |-> "yash", text |-> "Perfect, I'll bring some research to the meeting"] >>

FILLERS ==
    << [text |-> "hmm", lo |-> 300000, hi |-> 600000, speaker |-> "any", type |-> "acknowledgment"],
       [text |-> "yeah", lo |-> 400000, hi |-> 700000, speaker |-> "any", type |-> "acknowledgment"],
       [text |-> "right", lo |-> 400000, hi |-> 600000, speaker |-> "any", type |-> "acknowledgment"],
       [text |-> "yes", lo |-> 400000, hi |-> 600000, speaker |-> "any", type |-> "acknowledgment"],
       [text |-> "aha", lo |-> 300000, hi |-> 500000, speaker |-> "any", type |-> "acknowledgment"],
       [text |-> "mm-hmm", lo |-> 400000, hi |-> 700000, speaker |-> "any", type |-> "acknowledgment"],
       [text |-> "got it", lo |-> 500000, hi |-> 800000, speaker |-> "any", type |-> "acknowledgment"],
       [text |-> "I see", lo |-> 600000, hi |-> 900000, speaker |-> "any", type |-> "acknowledgment"],
       [text |-> "that's true", lo |-> 800000, hi |-> 1000000, speaker |-> "any", type |-> "agreement"],
       [text |-> "exactly", lo |-> 600000, hi |-> 900000, speaker |-> "any", type |-> "agreement"] >>

MIN_SILENCE_FOR_FILLER == 300
PAUSE_BETWEEN_LINES == 500
FIT_BUFFER_MS == 200
\* 24000 samples per second
SAMPLES_PER_MS == 24

\* the durations random.uniform is taken to draw from a range
DurChoices(f) == { f.lo + 500, f.hi }

\* filler['text'].replace(' ', '')
NoSpaces(text) ==
    CASE text = "got it" -> "gotit"
      [] text = "I see" -> "Isee"
      [] text = "that's true" -> "that'strue"
      [] OTHER -> text

\* f"fillers/{speaker}{text without spaces}.wav"
Filename(speaker, text) == << "fillers", speaker, NoSpaces(text) >>

\* the speakers a filler is generated for
SpeakersOf(f) == IF f.speaker = "any" THEN VOICES ELSE << f.speaker >>

\* the (filler, speaker) pairs in the order the two loops visit them
RECURSIVE PairsFrom(_)
PairsFrom(i) ==
    IF i > NumFillers \/ i > Len(FILLERS) THEN << >>
    ELSE [ j \in 1..Len(SpeakersOf(FILLERS[i])) |->
              << i, SpeakersOf(FILLERS[i])[j] >> ] \o PairsFrom(i + 1)

Pairs == PairsFrom(1)

AllKeys == { << FILLERS[Pairs[k][1]].text, Pairs[k][2] >> : k \in 1..Len(Pairs) }

(***************************************************************************)
(* ensure_filler_clips                                                     *)
(***************************************************************************)
\* the registry a call starts from
FreshRegistry(old) == << >>

\* one pass of the inner loop body, the except branch included
EnsureStep ==
    /\ fpc = "loop"
    /\ fpos <= Len(Pairs)
    /\ LET f == FILLERS[Pairs[fpos][1]]
           speaker == Pairs[fpos][2]
           key == << f.text, speaker >>
           filename == Filename(speaker, f.text)
       IN  \E duration \in DurChoices(f), outcome \in {"ok", "synth", "write"} :
              IF key \in DOMAIN filler_clips
                 THEN UNCHANGED << filler_clips, disk, synthCalls, fileWrites >>
                 ELSE /\ synthCalls' = synthCalls + 1
                      /\ IF outcome = "ok"
                            THEN /\ fileWrites' = fileWrites + 1
                                 /\ disk' = (filename :> frun) @@ disk
                                 /\ filler_clips' =
                                       (key :> << filename, f.type, duration >>) @@ filler_clips
                            ELSE UNCHANGED << filler_clips, disk, fileWrites >>
    /\ fpos' = fpos + 1
    /\ UNCHANGED << fpc, frun, prevFull, cvars, avars >>

EnsureReturn ==
    /\ fpc = "loop"
    /\ fpos > Len(Pairs)
    /\ fpc' = "done"
    /\ UNCHANGED << frun, fpos, filler_clips, disk, synthCalls, fileWrites,
                    prevFull, cvars, avars >>

\* the filler generation is run again, on the directory the last run left
EnsureAgain ==
    /\ fpc = "done"
    /\ frun < MaxRuns
    /\ fpc' = "loop"
    /\ frun' = frun + 1
    /\ fpos' = 1
    /\ filler_clips' = FreshRegistry(filler_clips)
    /\ synthCalls' = 0
    /\ fileWrites' = 0
    /\ prevFull' = (DOMAIN filler_clips = AllKeys)
    /\ UNCHANGED << disk, cvars, avars >>

FillersInit ==
    /\ fpc = "loop"
    /\ frun = 1
    /\ fpos = 1
    /\ filler_clips = << >>
    /\ disk = << >>
    /\ synthCalls = 0
    /\ fileWrites = 0
    /\ prevFull = FALSE

FillersIdle ==
    /\ fpc = "idle"
    /\ frun = 0
    /\ fpos = 1
    /\ disk = << >>
    /\ synthCalls = 0
    /\ fileWrites = 0
    /\ prevFull = FALSE

ConvIdle ==
    /\ cpc = "idle"
    /\ line = 1
    /\ conversation = << >>
    /\ temp = FALSE
    /\ skipped = {}
    /\ lens = << >>
    /\ main_audio = 0
    /\ main_speaker = "none"
    /\ pauses = << >>
    /\ ret = << >>

SpecFillersInit == FillersInit /\ ConvIdle /\ AudIdle

SpecFillersNext ==
    \/ EnsureStep
    \/ EnsureReturn
    \/ EnsureAgain

SpecFillers == SpecFillersInit /\ [][SpecFillersNext]_vars

(***************************************************************************)
(* add_listener_responses                                                  *)
(***************************************************************************)
\* audio is a sequence of pieces, each with a kind, the script line it
\* belongs to and a length in ms
Speech(ln, ms) == [kind |-> "speech", line |-> ln, ms |-> ms]
Filler(ln, ms) == [kind |-> "filler", line |-> ln, ms |-> ms]
Gap(ln, ms) == [kind |-> "gap", line |-> ln, ms |-> ms]

\* lengths of a synthesized line
SegmentLens == { 1000, 2000 }

\* boundaries silence detection is taken to report for a segment of length L
Points(L) ==
    { 0, L \div 10, L \div 10 + 50, L \div 10 + 350, L \div 2, L \div 2 + 50,
      (9 * L) \div 10 - 50, (9 * L) \div 10, L }

\* detect_silence reports intervals of at least min_silence_len
Intervals(L) ==
    { iv \in Points(L) \X Points(L) : iv[2] - iv[1] >= MIN_SILENCE_FOR_FILLER }

\* lists of at most n intervals, in order and apart from each other
RECURSIVE PauseLists(_, _)
PauseLists(L, n) ==
    IF n = 0 THEN { << >> }
    ELSE LET shorter == PauseLists(L, n - 1)
         IN  shorter \cup
             UNION { { Append(ps, iv) :
                          iv \in { i \in Intervals(L) :
                                      ps = << >> \/ ps[Len(ps)][2] < i[1] } } :
                     ps \in { q \in shorter : Len(q) = n - 1 } }

find_conversation_pauses(L) == PauseLists(L, MaxPauses)

OtherSpeaker(main) == IF main = "sandip" THEN "yash" ELSE "sandip"

\* the filter without the test of the end of the pause against 0.9*L
Suitable_noUpper(p, L) ==
    /\ 10 * p[1] > L
    /\ (p[2] - p[1]) > MIN_SILENCE_FOR_FILLER

\* p[0] > len*0.1 and p[1] < len*0.9 and (p[1] - p[0]) > MIN_SILENCE_FOR_FILLER
Suitable(p, L) ==
    /\ 10 * p[1] > L
    /\ 10 * p[2] < 9 * L
    /\ (p[2] - p[1]) > MIN_SILENCE_FOR_FILLER

SuitablePauses(ps, L) == { ps[i] : i \in { j \in 1..Len(ps) : Suitable(ps[j], L) } }

\* (path, dur) of the acknowledgment clips of the listener
AvailableFillers(clips, other) ==
    { << clips[k][1], clips[k][3] >> :
         k \in { q \in DOMAIN clips :
                    q[2] = other /\ clips[q][2] = "acknowledgment" } }

\* int(filler_duration * 1000)
FillerMs(dur) == dur \div 1000

\* the fit test without the buffer
Fits_noBuffer(p, filler_ms) == ~ ((p[2] - p[1]) < filler_ms)

Fits(p, filler_ms) == ~ ((p[2] - p[1]) < filler_ms + FIT_BUFFER_MS)

InsertPos(p, filler_ms) == p[1] + (p[2] - p[1] - filler_ms) \div 2

\* lengths in ms the clip file of a filler of the given duration can have:
\* the synthesized samples are cut to int(duration * 24000), never padded
ClipLens(dur) ==
    LET samples == (dur * SAMPLES_PER_MS) \div 1000
    IN  { samples \div SAMPLES_PER_MS, (samples \div 2) \div SAMPLES_PER_MS }

\* every value add_listener_responses can return for a segment of length L
\* of line ln, given the intervals ps silence detection found
ListenerResponses(L, ln, main, clips, ps) ==
    LET Unmodified(p, ms) ==
            [pause |-> p, filler_ms |-> ms, inserted |-> FALSE,
             audio |-> << Speech(ln, L) >>]
        Spliced(p, ms, clip) ==
            [pause |-> p, filler_ms |-> ms, inserted |-> TRUE,
             audio |-> << Speech(ln, InsertPos(p, ms)), Filler(ln, clip),
                          Speech(ln, L - InsertPos(p, ms)) >>]
        suitable == SuitablePauses(ps, L)
        available == AvailableFillers(clips, OtherSpeaker(main))
        WithFiller(p, f) ==
            IF ~ Fits(p, FillerMs(f[2]))
               THEN { Unmodified(p, FillerMs(f[2])) }
               ELSE \* from_wav raises, or the splice
                    { Unmodified(p, FillerMs(f[2])) } \cup
                    { Spliced(p, FillerMs(f[2]), c) : c \in ClipLens(f[2]) }
        WithPause(p) ==
            IF available = {} THEN { Unmodified(p, -1) }
            ELSE UNION { WithFiller(p, f) : f \in available }
    IN  \* no pause, or random.random() > ACKNOWLEDGMENT_PROBABILITY
        { Unmodified(<< >>, -1) } \cup
        ( IF ps = << >> \/ suitable = {} THEN {}
          ELSE UNION { WithPause(p) : p \in suitable } )

AddListenerResponses ==
    /\ cpc = "alr"
    /\ \E ps \in find_conversation_pauses(main_audio) :
          \E r \in ListenerResponses(main_audio, line, main_speaker, filler_clips, ps) :
             /\ pauses' = ps
             /\ ret' = r
    /\ cpc' = "alr_done"
    /\ UNCHANGED << line, conversation, temp, skipped, lens, main_audio,
                    main_speaker, filler_clips, fvars, avars >>

\* entries of FILLERS the registries of SpecInsert and SpecConv are built from
SampleFillers == { 1, 9 }

SampleKeys == { << FILLERS[i].text, VOICES[j] >> : i \in SampleFillers, j \in 1..Len(VOICES) }

ClipsOf(key) ==
    LET f == CHOOSE g \in { FILLERS[i] : i \in SampleFillers } : g.text = key[1]
    IN  { << Filename(key[2], key[1]), f.type, d >> : d \in DurChoices(f) }

\* registries ensure_filler_clips can return over the sample entries
Registries ==
    UNION { { r \in [K -> UNION { ClipsOf(k) : k \in K }] :
                 \A k \in K : r[k] \in ClipsOf(k) } : K \in SUBSET SampleKeys }

SpecInsertInit ==
    /\ cpc = "alr"
    /\ line = 1
    /\ conversation = << >>
    /\ temp = FALSE
    /\ skipped = {}
    /\ lens = << >>
    /\ main_audio \in SegmentLens
    /\ main_speaker \in { VOICES[j] : j \in 1..Len(VOICES) }
    /\ pauses = << >>
    /\ ret = << >>
    /\ filler_clips \in Registries
    /\ FillersIdle
    /\ AudIdle

SpecInsertNext == AddListenerResponses

SpecInsert == SpecInsertInit /\ [][SpecInsertNext]_vars

(***************************************************************************)
(* generate_conversation                                                   *)
(***************************************************************************)
Script == SubSeq(BASE_SCRIPT, 1, NumLines)

Jitters == { -100, 200 }

\* a gap after every line, the last included
GapAfter_always(ln) == TRUE

\* line != BASE_SCRIPT[-1]
GapAfter(ln) == Script[ln] # Script[Len(Script)]

\* an except branch that starts the buffer over
AfterFailure_reset(conv) == << >>

\* except: log and continue; the buffer is what it was
AfterFailure(conv) == conv

LoopHead(ln) == IF ln > Len(Script) THEN "done" ELSE "synth"

\* the except branch of the loop: next line
SkipLine ==
    /\ skipped' = skipped \cup { line }
    /\ conversation' = AfterFailure(conversation)
    /\ line' = line + 1
    /\ cpc' = LoopHead(line + 1)
    /\ main_audio' = 0
    /\ main_speaker' = "none"

\* generate_audio_clip for the line in turn
Synthesize ==
    /\ cpc = "synth"
    /\ line <= Len(Script)
    /\ \/ \E L \in SegmentLens :
             /\ main_audio' = L
             /\ main_speaker' = Script[line].speaker
             /\ lens' = Append(lens, << line, L >>)
             /\ cpc' = "write"
             /\ UNCHANGED << line, conversation, skipped >>
       \/ SkipLine /\ lens' = lens
    /\ UNCHANGED << temp, pauses, ret, filler_clips, fvars, avars >>

\* write_wav(temp_wav, ...)
WriteTemp ==
    /\ cpc = "write"
    /\ \/ /\ temp' = TRUE
          /\ cpc' = "read"
          /\ UNCHANGED << line, conversation, skipped, main_audio, main_speaker >>
       \/ /\ temp' \in { temp, TRUE }
          /\ SkipLine
    /\ UNCHANGED << lens, pauses, ret, filler_clips, fvars, avars >>

\* AudioSegment.from_wav(temp_wav)
ReadTemp ==
    /\ cpc = "read"
    /\ \/ /\ cpc' = "remove"
          /\ UNCHANGED << line, conversation, skipped, main_audio, main_speaker >>
       \/ SkipLine
    /\ UNCHANGED << temp, lens, pauses, ret, filler_clips, fvars, avars >>

\* os.remove(temp_wav)
RemoveTemp ==
    /\ cpc = "remove"
    /\ \/ /\ temp' = FALSE
          /\ cpc' = "respond"
          /\ UNCHANGED << line, conversation, skipped, main_audio, main_speaker >>
       \/ /\ temp' = temp
          /\ SkipLine
    /\ UNCHANGED << lens, pauses, ret, filler_clips, fvars, avars >>

\* add_listener_responses, the append to the buffer and the gap
AppendLine ==
    /\ cpc = "respond"
    /\ \E ps \in find_conversation_pauses(main_audio), jitter \in Jitters :
          \E r \in ListenerResponses(main_audio, line, main_speaker, filler_clips, ps) :
             conversation' =
                conversation \o r.audio \o
                (IF GapAfter(line)
                    THEN << Gap(line, PAUSE_BETWEEN_LINES + jitter) >>
                    ELSE << >>)
    /\ line' = line + 1
    /\ cpc' = LoopHead(line + 1)
    /\ main_audio' = 0
    /\ main_speaker' = "none"
    /\ UNCHANGED << temp, skipped, lens, pauses, ret, filler_clips, fvars, avars >>

\* registry with exactly one clip per speaker, of the acknowledgment type
OneAckPerSpeaker(clips) ==
    \A j \in 1..Len(VOICES) :
       /\ Cardinality({ k \in DOMAIN clips : k[2] = VOICES[j] }) = 1
       /\ \A k \in DOMAIN clips : clips[k][2] = "acknowledgment"

SpecConvInit ==
    /\ cpc = "synth"
    /\ line = 1
    /\ conversation = << >>
    /\ temp = FALSE
    /\ skipped = {}
    /\ lens = << >>
    /\ main_audio = 0
    /\ main_speaker = "none"
    /\ pauses = << >>
    /\ ret = << >>
    /\ filler_clips \in { r \in Registries : OneAckPerSpeaker(r) }
    /\ FillersIdle
    /\ AudIdle

SpecConvNext ==
    \/ Synthesize
    \/ WriteTemp
    \/ ReadTemp
    \/ RemoveTemp
    \/ AppendLine

SpecConv == SpecConvInit /\ [][SpecConvNext]_vars

Init == AudInit /\ FillersIdle /\ ConvIdle /\ filler_clips = << >>

Next ==
    \/ EnsurePoll
    \/ EnsureRaise
    \/ CheckInput
    \/ SendAttempt
    \/ SendRaise
    \/ RecvBegin
    \/ RecvFail
    \/ RecvRead
    \/ RecvBlock
    \/ RecvTimeout
    \/ Settle

Spec == Init /\ [][Next]_vars

(***************************************************************************)
(* Properties of audacity_controller.py, checked under Spec                *)
(***************************************************************************)
Max(a, b) == IF a >= b THEN a ELSE b

SendFailed == error[1] = "RuntimeError:write"

\* C1 (as stated): a send() that returns has made one attempt more than the
\* attempts that failed and has written the command exactly once; a send()
\* that fails has made 5 attempts and carries the error of the 5th.
C1_WrittenOnce ==
    /\ mpc = "sent" => attempts = fails + 1 /\ writes = 1
    /\ SendFailed => attempts = SEND_RETRIES /\ error[2][2] = SEND_RETRIES

\* C1 (amended): a send() that returns has made one attempt more than the
\* attempts that failed (at most 4) and has written the command once in the
\* successful attempt plus once for every attempt that failed after its
\* write; a send() that fails has made 5 attempts and carries the error of
\* the 5th.
C1_SendRetries ==
    /\ mpc = "sent" =>
          /\ attempts = fails + 1
          /\ fails < SEND_RETRIES
          /\ lateFails <= fails
          /\ writes = 1 + lateFails
    /\ SendFailed =>
          /\ mpc = "raised"
          /\ attempts = SEND_RETRIES
          /\ fails = SEND_RETRIES
          /\ error[2] = last_exc
          /\ error[2][2] = SEND_RETRIES

C1_Witness == mpc = "sent" /\ fails = SEND_RETRIES - 1 /\ lateFails = 0 /\ writes = 1

C3_EnsureBounded ==
    /\ polls <= ENSURE_POLLS
    /\ waited <= ENSURE_POLLS * ENSURE_SLEEP_MS
    /\ mpc = "ensure" /\ polls > 0 => ~ (toPipe /\ frPipe)
    /\ mpc = "ensure" => waited = polls * ENSURE_SLEEP_MS
    /\ mpc = "check_input" =>
          /\ toPipe /\ frPipe
          /\ polls >= 1
          /\ waited = (polls - 1) * ENSURE_SLEEP_MS
    /\ error[1] = "RuntimeError:pipes" =>
          /\ mpc = "raised"
          /\ polls = ENSURE_POLLS
          /\ waited = ENSURE_POLLS * ENSURE_SLEEP_MS
          /\ ~ (toPipe /\ frPipe)

C3_Witness == error[1] = "RuntimeError:pipes" /\ waited = 6000

IsPrefix(s, t) == Len(s) <= Len(t) /\ s = SubSeq(t, 1, Len(s))

\* C4 (as stated): once the pipeline has started, whether a send failed or a
\* recv timed out, the run ends with every command and the verification
\* query sent, in order.
C4_NeverHalts ==
    (mpc = "done" \/ SendFailed) => sent = AllCmds

\* C4 (amended): a recv that timed out does not halt the run: the next step
\* is taken and a run that completes has sent every command and then the
\* verification query, in order; a send that exhausted its retries halts
\* the run: exactly the commands before it were sent.
C4_TimeoutContinues ==
    /\ IsPrefix(sent, AllCmds)
    /\ mpc = "settle" => ENABLED Settle
    /\ mpc = "settle" => Len(sent) = idx
    /\ mpc = "done" => sent = AllCmds
    /\ SendFailed => mpc = "raised" /\ sent = SubSeq(AllCmds, 1, idx - 1)

C4_Witness == mpc = "done" /\ unacked > 0 /\ unacked < Len(AllCmds)

(***************************************************************************)
(* Properties of bark/run.py                                               *)
(***************************************************************************)
\* C5 (SpecFillers): a run of the filler generation that follows a run which
\* produced a clip for every (filler text, speaker) pair makes no
\* speech-synthesis call and writes no clip file.
C5_Idempotent ==
    frun > 1 /\ prevFull => synthCalls = 0 /\ fileWrites = 0

\* the segment add_listener_responses was given, unmodified
MainAudio == << Speech(line, main_audio) >>

Central(p, L) == 10 * p[1] >= L /\ 10 * p[2] <= 9 * L /\ (p[2] - p[1]) > MIN_SILENCE_FOR_FILLER

\* C6 (SpecInsert): the pause add_listener_responses selects is one of the
\* detected intervals, starts no earlier than 0.1*L, ends no later than
\* 0.9*L and is longer than MIN_SILENCE_FOR_FILLER; when no detected
\* interval is like that, no pause is selected and the segment comes back
\* unmodified.
C6_PauseCentral ==
    cpc = "alr_done" =>
       /\ ret.pause # << >> =>
             /\ \E i \in 1..Len(pauses) : pauses[i] = ret.pause
             /\ Central(ret.pause, main_audio)
       /\ (\A i \in 1..Len(pauses) : ~ Central(pauses[i], main_audio)) =>
             /\ ret.pause = << >>
             /\ ~ ret.inserted
             /\ ret.audio = MainAudio

C6_Witness ==
    /\ cpc = "alr_done"
    /\ ret.pause # << >>
    /\ \E i \in 1..Len(pauses) : 10 * pauses[i][2] >= 9 * main_audio

AckClips(clips, other) ==
    { k \in DOMAIN clips : k[2] = other /\ clips[k][2] = "acknowledgment" }

\* C7 (SpecInsert): the filler chosen is an acknowledgment clip of the other
\* speaker; when the chosen pause is shorter than the filler's duration in
\* ms plus 200, and when the other speaker has no acknowledgment clip in the
\* registry, the segment comes back unmodified.
C7_NoInsertWhenTight ==
    cpc = "alr_done" =>
       /\ ret.filler_ms >= 0 =>
             \E k \in AckClips(filler_clips, OtherSpeaker(main_speaker)) :
                ret.filler_ms = FillerMs(filler_clips[k][3])
       /\ (ret.pause # << >> /\ ret.filler_ms >= 0
             /\ ret.pause[2] - ret.pause[1] < ret.filler_ms + 200) =>
             ~ ret.inserted /\ ret.audio = MainAudio
       /\ AckClips(filler_clips, OtherSpeaker(main_speaker)) = {} =>
             ~ ret.inserted /\ ret.audio = MainAudio
       /\ ~ ret.inserted => ret.audio = MainAudio

C7_Witness ==
    /\ cpc = "alr_done"
    /\ ret.pause # << >>
    /\ ret.filler_ms >= 0
    /\ ret.pause[2] - ret.pause[1] >= ret.filler_ms
    /\ ret.pause[2] - ret.pause[1] < ret.filler_ms + 200

RECURSIVE SumMs(_)
SumMs(seq) == IF seq = << >> THEN 0 ELSE seq[1].ms + SumMs(Tail(seq))

RECURSIVE SumLens(_)
SumLens(seq) == IF seq = << >> THEN 0 ELSE seq[1][2] + SumLens(Tail(seq))

Select(conv, k) == SelectSeq(conv, LAMBDA pc : pc.kind = k)
OfLine(conv, ln) == SelectSeq(conv, LAMBDA pc : pc.line = ln)

\* the pieces of one line: the segment, whole or split around one filler,
\* then the gap if any
LineShape(conv, ln, L) ==
    LET mine == OfLine(conv, ln)
        body == SelectSeq(mine, LAMBDA pc : pc.kind # "gap")
    IN  /\ SumMs(Select(mine, "speech")) = L
        /\ \/ body = << Speech(ln, L) >>
           \/ /\ Len(body) = 3
              /\ body[1].kind = "speech" /\ body[2].kind = "filler"
              /\ body[3].kind = "speech"
        /\ Len(Select(mine, "gap")) = (IF ln < Len(Script) THEN 1 ELSE 0)
        /\ \A i \in 1..Len(mine) :
              mine[i].kind = "gap" =>
                 /\ i = Len(mine)
                 /\ mine[i].ms >= PAUSE_BETWEEN_LINES - 100
                 /\ mine[i].ms <= PAUSE_BETWEEN_LINES + 200

InOrder(conv) == \A i, j \in 1..Len(conv) : i < j => conv[i].line <= conv[j].line

\* every line present once, in script order, a gap after each line but the
\* last, and the total the sum of segments, fillers and gaps
AllLinesAssembled ==
    /\ InOrder(conversation)
    /\ Len(lens) = Len(Script)
    /\ \A ln \in 1..Len(Script) :
          lens[ln][1] = ln /\ LineShape(conversation, ln, lens[ln][2])
    /\ Len(Select(conversation, "gap")) = Len(Script) - 1
    /\ SumMs(conversation) =
          SumLens(lens) + SumMs(Select(conversation, "filler"))
             + SumMs(Select(conversation, "gap"))

AllSucceeded ==
    cpc = "done" /\ skipped = {} /\ OneAckPerSpeaker(filler_clips)

\* C8 (as stated, SpecConv): when every line synthesizes, the conversation
\* holds every line once, in script order, one gap between consecutive
\* lines and none after the last, and at most 1 filler in total.
C8_OneFillerInTotal ==
    AllSucceeded =>
       /\ AllLinesAssembled
       /\ Len(Select(conversation, "filler")) <= 1

\* C8 (amended, SpecConv): when every line synthesizes, the conversation
\* holds every line once, in script order, one gap between consecutive
\* lines and none after the last, and at most 1 filler per line; its total
\* duration is the sum of the segments, the fillers and the gaps.
C8_OneFillerPerLine ==
    AllSucceeded =>
       /\ AllLinesAssembled
       /\ \A ln \in 1..Len(Script) :
             Len(Select(OfLine(conversation, ln), "filler")) <= 1

C8_Witness ==
    /\ AllSucceeded
    /\ Len(Select(conversation, "filler")) = 1
    /\ Len(Select(conversation, "gap")) = Len(Script) - 1

LinesIn(conv) == { conv[i].line : i \in 1..Len(conv) }

LenOf(ln) == LET e == CHOOSE x \in { lens[i] : i \in 1..Len(lens) } : x[1] = ln IN e[2]

C9_Kept ==
    /\ InOrder(conversation)
    /\ LinesIn(conversation) = (1..(line - 1)) \ skipped
    /\ skipped \subseteq 1..(line - 1)
    /\ \A ln \in LinesIn(conversation) :
          SumMs(Select(OfLine(conversation, ln), "speech")) = LenOf(ln)
    /\ cpc = "done" => line = Len(Script) + 1

C10_TempGone ==
    cpc \in { "synth", "done" } => ~ temp

====
